---------------------------- MODULE Spec2Model ----------------------------
(***************************************************************************)
(* A model of src/pong.py: the Paddle and Ball classes, the                *)
(* AIPaddleController and the frame loop of main().                        *)
(*                                                                         *)
(* Numbers.  pygame.Rect holds integers, so positions are integers         *)
(* (pixels).  The Python floats (vx, vy, speed, the AI target, a move's    *)
(* dy) are fixed-point integers in units of 1/MILLI, and int(f) is         *)
(* IntTrunc, truncation toward zero.  Angles are integers in units of      *)
(* pi/1000; math.cos and math.sin are read from COSTAB, the floor of       *)
(* TRIG * cos(a * pi / 1000).                                              *)
(***************************************************************************)
EXTENDS Integers, Sequences, FiniteSets, TLC

\* ------------------------------------------------------------ constants
WIDTH == 800
HEIGHT == 600
FPS == 60
PADDLE_WIDTH == 12
PADDLE_HEIGHT == 100
PADDLE_SPEED == 7
AI_PADDLE_SPEED == 6
BALL_SIZE == 12
\* 6.0, 12.0 and 0.35 in units of 1/MILLI
BALL_SPEED_INITIAL == 6000
BALL_SPEED_MAX == 12000
BALL_SPEED_INCREMENT == 350
\* AIPaddleController.update_interval_ms
UPDATE_INTERVAL_MS == 120
\* AIPaddleController.center_bias, 0.15, in hundredths
CENTER_BIAS_PCT == 15
\* left_paddle's x in main()
LEFT_PADDLE_X == 32
\* the serve band of Ball.__init__ and Ball.reset, 0.35 * pi, in pi/1000
SERVE_ANGLE == 350
\* the deflection of Ball._bounce_off_paddle, 0.45 * pi, in pi/1000
BOUNCE_ANGLE == 450

\* the fixed-point unit of the floats, and the scale of COSTAB
MILLI == 1000
TRIG == 100000

\* ------------------------------------------------------------ bounds
\* Paddle.move's dy: multiples of DeltaUnit/MILLI pixels, and +-BigDelta
DeltaUnit == 3500
DeltaSteps == 2
BigDelta == 10000000
\* serve angles: ServeSteps values on each side of 0 across the serve band
ServeSteps == 2
\* SpecBall follows a serve for MaxRallyFrames frames
MaxRallyFrames == 75
\* SpecAI: the clock stops at MaxTime ms; random.gauss gives k * NoiseUnit / MILLI
\* pixels, |k| <= NoiseSteps
MaxTime == 260
NoiseUnit == 40000
NoiseSteps == 1
\* SpecScore: play stops when the two scores add up to MaxScore, or
\* MaxScoreFrames frames after a serve
MaxScore == 2
MaxScoreFrames == 190
\* Spec: the game loop stops at MaxGameTime ms of pygame's clock
MaxGameTime == 1207

\* ------------------------------------------------------------ arithmetic
Abs(v) == IF v >= 0 THEN v ELSE -v
Sign(v) == IF v > 0 THEN 1 ELSE IF v < 0 THEN -1 ELSE 0
Min(a, b) == IF a <= b THEN a ELSE b
Max(a, b) == IF a >= b THEN a ELSE b
\* Python's true division, then the float kept to its integer numerator
TruncDiv(a, b) == Sign(a) * Sign(b) * (Abs(a) \div Abs(b))
\* int(f) of a float f held in units of 1/MILLI
IntTrunc(f) == TruncDiv(f, MILLI)

\* floor(TRIG * math.cos(a * math.pi / 1000)) for a = 0 .. 500
COSTAB ==
    <<100000,  99999,  99998,  99995,  99992,  99987,  99982,  99975,  99968,  99960,
        99950,  99940,  99928,  99916,  99903,  99888,  99873,  99857,  99840,  99821,
        99802,  99782,  99761,  99739,  99715,  99691,  99666,  99640,  99613,  99585,
        99556,  99526,  99495,  99463,  99430,  99396,  99361,  99325,  99288,  99250,
        99211,  99171,  99130,  99088,  99046,  99002,  98957,  98911,  98865,  98817,
        98768,  98719,  98668,  98617,  98564,  98510,  98456,  98400,  98344,  98287,
        98228,  98169,  98109,  98047,  97985,  97922,  97858,  97792,  97726,  97659,
        97591,  97522,  97452,  97381,  97309,  97236,  97163,  97088,  97012,  96935,
        96858,  96779,  96700,  96619,  96538,  96455,  96372,  96288,  96202,  96116,
        96029,  95941,  95852,  95762,  95671,  95579,  95486,  95392,  95297,  95202,
        95105,  95008,  94909,  94810,  94709,  94608,  94506,  94403,  94299,  94194,
        94088,  93981,  93873,  93764,  93654,  93544,  93432,  93320,  93207,  93092,
        92977,  92861,  92744,  92626,  92507,  92387,  92267,  92145,  92023,  91899,
        91775,  91650,  91524,  91397,  91269,  91140,  91010,  90879,  90748,  90616,
        90482,  90348,  90213,  90077,  89940,  89802,  89664,  89524,  89384,  89242,
        89100,  88957,  88813,  88668,  88523,  88376,  88229,  88080,  87931,  87781,
        87630,  87478,  87326,  87172,  87018,  86863,  86707,  86550,  86392,  86233,
        86074,  85913,  85752,  85590,  85427,  85264,  85099,  84934,  84767,  84600,
        84432,  84264,  84094,  83924,  83752,  83580,  83407,  83234,  83059,  82884,
        82708,  82531,  82353,  82174,  81995,  81814,  81633,  81452,  81269,  81085,
        80901,  80716,  80530,  80344,  80156,  79968,  79779,  79589,  79399,  79207,
        79015,  78822,  78628,  78434,  78239,  78043,  77846,  77648,  77450,  77251,
        77051,  76850,  76649,  76447,  76244,  76040,  75836,  75631,  75425,  75218,
        75011,  74802,  74594,  74384,  74174,  73963,  73751,  73538,  73325,  73111,
        72896,  72681,  72465,  72248,  72030,  71812,  71593,  71373,  71153,  70932,
        70710,  70488,  70264,  70041,  69816,  69591,  69365,  69138,  68911,  68683,
        68454,  68225,  67995,  67764,  67533,  67301,  67068,  66835,  66601,  66366,
        66131,  65895,  65658,  65421,  65183,  64944,  64705,  64465,  64225,  63984,
        63742,  63500,  63257,  63013,  62769,  62524,  62278,  62032,  61785,  61538,
        61290,  61042,  60793,  60543,  60292,  60042,  59790,  59538,  59285,  59032,
        58778,  58524,  58269,  58013,  57757,  57500,  57243,  56985,  56726,  56467,
        56208,  55948,  55687,  55426,  55164,  54902,  54639,  54376,  54112,  53847,
        53582,  53317,  53051,  52784,  52517,  52249,  51981,  51713,  51443,  51174,
        50904,  50633,  50362,  50090,  49818,  49545,  49272,  48999,  48725,  48450,
        48175,  47899,  47623,  47347,  47070,  46792,  46515,  46236,  45957,  45678,
        45399,  45118,  44838,  44557,  44275,  43993,  43711,  43428,  43145,  42861,
        42577,  42293,  42008,  41723,  41437,  41151,  40864,  40577,  40290,  40002,
        39714,  39426,  39137,  38848,  38558,  38268,  37977,  37687,  37395,  37104,
        36812,  36520,  36227,  35934,  35641,  35347,  35053,  34759,  34464,  34169,
        33873,  33578,  33281,  32985,  32688,  32391,  32094,  31796,  31498,  31200,
        30901,  30602,  30303,  30003,  29704,  29404,  29103,  28802,  28501,  28200,
        27899,  27597,  27295,  26992,  26690,  26387,  26084,  25780,  25477,  25173,
        24868,  24564,  24259,  23955,  23649,  23344,  23038,  22733,  22427,  22120,
        21814,  21507,  21200,  20893,  20586,  20278,  19970,  19663,  19354,  19046,
        18738,  18429,  18120,  17811,  17502,  17192,  16883,  16573,  16263,  15953,
        15643,  15333,  15022,  14711,  14401,  14090,  13779,  13467,  13156,  12844,
        12533,  12221,  11909,  11597,  11285,  10973,  10661,  10348,  10036,   9723,
         9410,   9098,   8785,   8472,   8159,   7845,   7532,   7219,   6906,   6592,
         6279,   5965,   5651,   5338,   5024,   4710,   4396,   4082,   3769,   3455,
         3141,   2827,   2513,   2198,   1884,   1570,   1256,    942,    628,    314,
            0 >>

\* math.cos(a) and math.sin(a), a in pi/1000 with |a| <= 500, scaled by TRIG
Cos(a) == COSTAB[Abs(a) + 1]
Sin(a) == Sign(a) * COSTAB[500 - Abs(a) + 1]
\* c * s for a trig value c (scale TRIG) and a float s: a float
TrigMul(c, s) == TruncDiv(c * s, TRIG)

\* ------------------------------------------------------------ pygame.Rect
Rect(x, y, w, h) == [x |-> x, y |-> y, w |-> w, h |-> h]
Top(r) == r.y
Bottom(r) == r.y + r.h
RLeft(r) == r.x
RRight(r) == r.x + r.w
CenterX(r) == r.x + r.w \div 2
CenterY(r) == r.y + r.h \div 2
SetTop(r, v) == [r EXCEPT !.y = v]
SetBottom(r, v) == [r EXCEPT !.y = v - r.h]
SetLeft(r, v) == [r EXCEPT !.x = v]
SetRight(r, v) == [r EXCEPT !.x = v - r.w]
SetCenter(r, cx, cy) == [r EXCEPT !.x = cx - r.w \div 2, !.y = cy - r.h \div 2]
\* pygame.Rect.colliderect if rectangles that only touch collided
Colliderect_Touching(a, b) ==
    /\ a.w > 0 /\ a.h > 0 /\ b.w > 0 /\ b.h > 0
    /\ a.x <= b.x + b.w /\ b.x <= a.x + a.w
    /\ a.y <= b.y + b.h /\ b.y <= a.y + a.h

Colliderect(a, b) ==
    /\ a.w > 0 /\ a.h > 0 /\ b.w > 0 /\ b.h > 0
    /\ a.x < b.x + b.w /\ b.x < a.x + a.w
    /\ a.y < b.y + b.h /\ b.y < a.y + a.h

\* ------------------------------------------------------------ Paddle
\* Paddle.clamp_to_screen without its second test
ClampToScreen_NoBottom(p) ==
    IF Top(p.rect) < 0 THEN [p EXCEPT !.rect = SetTop(p.rect, 0)] ELSE p

ClampToScreen(p) ==
    LET a == IF Top(p.rect) < 0 THEN [p EXCEPT !.rect = SetTop(p.rect, 0)] ELSE p
    IN  IF Bottom(a.rect) > HEIGHT
        THEN [a EXCEPT !.rect = SetBottom(a.rect, HEIGHT)]
        ELSE a

\* Paddle.move rounding dy to the nearest pixel instead of truncating it
PaddleMove_Round(p, dy) ==
    ClampToScreen([p EXCEPT !.rect.y = p.rect.y + IntTrunc(dy + Sign(dy) * (MILLI \div 2))])

PaddleMove(p, dy) ==
    ClampToScreen([p EXCEPT !.rect.y = p.rect.y + IntTrunc(dy)])

\* ------------------------------------------------------------ Ball
\* vx, vy = cos(angle) * speed * direction, sin(angle) * speed
Velocity(angle, speed, direction) ==
    [vx |-> TrigMul(Cos(angle), speed) * direction,
     vy |-> TrigMul(Sin(angle), speed)]

\* Ball.__init__ on the rectangle main() gives it
BallInit(angle, direction) ==
    LET v == Velocity(angle, BALL_SPEED_INITIAL, direction)
    IN  [rect |-> Rect(WIDTH \div 2 - BALL_SIZE \div 2, HEIGHT \div 2 - BALL_SIZE \div 2,
                       BALL_SIZE, BALL_SIZE),
         vx |-> v.vx, vy |-> v.vy, speed |-> BALL_SPEED_INITIAL]

\* Ball.reset keeping the speed of the rally
BallReset_KeepSpeed(b, direction, angle) ==
    LET v == Velocity(angle, b.speed, direction)
    IN  [rect |-> SetCenter(b.rect, WIDTH \div 2, HEIGHT \div 2),
         vx |-> v.vx, vy |-> v.vy, speed |-> b.speed]

BallReset(b, direction, angle) ==
    LET v == Velocity(angle, BALL_SPEED_INITIAL, direction)
    IN  [rect |-> SetCenter(b.rect, WIDTH \div 2, HEIGHT \div 2),
         vx |-> v.vx, vy |-> v.vy, speed |-> BALL_SPEED_INITIAL]

\* "Move ball"
Advance(b) ==
    [b EXCEPT !.rect.x = b.rect.x + IntTrunc(b.vx),
              !.rect.y = b.rect.y + IntTrunc(b.vy)]

\* "Screen bounds (top/bottom)": which branch is taken
WallHit(b) ==
    IF Top(b.rect) <= 0 THEN "top"
    ELSE IF Bottom(b.rect) >= HEIGHT THEN "bottom"
    ELSE "none"

\* the wall branches without "self.rect.top = 0" and "self.rect.bottom = HEIGHT"
WallBounce_NoClamp(b) ==
    IF WallHit(b) = "none" THEN b ELSE [b EXCEPT !.vy = -b.vy]

\* "Screen bounds (top/bottom)"
WallBounce(b) ==
    CASE WallHit(b) = "top" -> [b EXCEPT !.rect = SetTop(b.rect, 0), !.vy = -b.vy]
      [] WallHit(b) = "bottom" -> [b EXCEPT !.rect = SetBottom(b.rect, HEIGHT), !.vy = -b.vy]
      [] OTHER -> b

\* offset = (ball_center_y - paddle_center_y) / (paddle.rect.height / 2),
\* clamped to [-1.0, 1.0]
ImpactOffset(r, paddle) ==
    Max(-MILLI, Min(MILLI,
        TruncDiv((CenterY(r) - CenterY(paddle.rect)) * 2 * MILLI, paddle.rect.h)))

\* a bounce that leaves the speed as it was
BounceSpeed_Steady(speed) == speed

\* the speed-up without its cap
BounceSpeed_NoCap(speed) == speed + BALL_SPEED_INCREMENT

\* "Increase speed slightly up to max"
BounceSpeed(speed) == Min(BALL_SPEED_MAX, speed + BALL_SPEED_INCREMENT)

\* "reflect away from paddle" with the two sides exchanged
BounceDirection_Swapped(is_right) == IF is_right = FALSE THEN -1 ELSE 1

BounceDirection(is_right) == IF is_right = FALSE THEN 1 ELSE -1

\* the new velocity computed before the speed-up, from the old speed
BounceVelocity_OldSpeed(b, offset, is_right) ==
    Velocity(TruncDiv(offset * BOUNCE_ANGLE, MILLI), b.speed, BounceDirection(is_right))

\* "New direction: reflect x, adjust y based on offset"
BounceVelocity(b, offset, is_right) ==
    Velocity(TruncDiv(offset * BOUNCE_ANGLE, MILLI), BounceSpeed(b.speed),
             BounceDirection(is_right))

\* the bounce without "Push ball outside the paddle to avoid sticking"
BounceOffPaddle_NoPush(b, paddle, is_right) ==
    LET v == BounceVelocity(b, ImpactOffset(b.rect, paddle), is_right)
    IN  [rect |-> b.rect, vx |-> v.vx, vy |-> v.vy, speed |-> BounceSpeed(b.speed)]

\* Ball._bounce_off_paddle
BounceOffPaddle(b, paddle, is_right) ==
    LET r == IF is_right THEN SetRight(b.rect, RLeft(paddle.rect))
                         ELSE SetLeft(b.rect, RRight(paddle.rect))
        v == BounceVelocity(b, ImpactOffset(r, paddle), is_right)
    IN  [rect |-> r, vx |-> v.vx, vy |-> v.vy, speed |-> BounceSpeed(b.speed)]

\* the paddle after a bounce whose "self.rect.left = paddle.rect.right" and
\* "self.rect.right = paddle.rect.left" assign the other way round
BouncedPaddle_Pushed(b, paddle, is_right) ==
    [paddle EXCEPT !.rect = IF is_right THEN SetLeft(paddle.rect, RRight(b.rect))
                                        ELSE SetRight(paddle.rect, RLeft(b.rect))]

\* the paddle after Ball._bounce_off_paddle, which reads paddle.rect and
\* assigns to the ball only
BouncedPaddle(b, paddle, is_right) == paddle

\* "Paddle collisions": which branch is taken
PaddleHit(b, l, r) ==
    IF Colliderect(b.rect, l.rect) /\ b.vx < 0 THEN "left"
    ELSE IF Colliderect(b.rect, r.rect) /\ b.vx > 0 THEN "right"
    ELSE "none"

PaddleCollide(b, l, r) ==
    CASE PaddleHit(b, l, r) = "left" -> BounceOffPaddle(b, l, FALSE)
      [] PaddleHit(b, l, r) = "right" -> BounceOffPaddle(b, r, TRUE)
      [] OTHER -> b

\* "Scoring (passed left/right edges)": which branch is taken
GoalHit(b) ==
    IF RRight(b.rect) < 0 THEN "left"
    ELSE IF RLeft(b.rect) > WIDTH THEN "right"
    ELSE "none"

\* the score deltas with the left delta left at 1 on a goal at the left edge
ScoreDelta_Both(goal) ==
    CASE goal = "left" -> <<1, 1>>
      [] goal = "right" -> <<1, 0>>
      [] OTHER -> <<0, 0>>

\* (score_left, score_right) as Ball.update returns it
ScoreDelta(goal) ==
    CASE goal = "left" -> <<0, 1>>
      [] goal = "right" -> <<1, 0>>
      [] OTHER -> <<0, 0>>

\* the serve after a goal with the two directions exchanged
ServeDirection_Swapped(goal) == IF goal = "left" THEN 1 ELSE -1

\* the direction Ball.update passes to reset
ServeDirection(goal) == IF goal = "left" THEN -1 ELSE 1

\* the ball before the scoring test of Ball.update
BeforeScoring(b, l, r) == PaddleCollide(WallBounce(Advance(b)), l, r)

\* Ball.update: the ball it leaves; angle is what random.uniform gives reset
BallUpdate(b, l, r, angle) ==
    LET c == BeforeScoring(b, l, r)
    IN  IF GoalHit(c) = "none" THEN c ELSE BallReset(c, ServeDirection(GoalHit(c)), angle)

\* Ball.update: the two paddles it leaves
UpdatePaddles(b, l, r) ==
    LET w == WallBounce(Advance(b))
    IN  [left |-> IF PaddleHit(w, l, r) = "left" THEN BouncedPaddle(w, l, FALSE) ELSE l,
         right |-> IF PaddleHit(w, l, r) = "right" THEN BouncedPaddle(w, r, TRUE) ELSE r]

\* what one Ball.update did: the wall and paddle branches taken, the impact
\* offset of a bounce, the goal, the speed and the rect at the scoring test,
\* and the heights of the two paddles it was given
UpdateTrace(b, l, r) ==
    LET a == Advance(b)
        w == WallBounce(a)
        c == PaddleCollide(w, l, r)
        p == IF PaddleHit(w, l, r) = "left" THEN l ELSE r
    IN  [wall |-> WallHit(a),
         paddle |-> PaddleHit(w, l, r),
         offset |-> IF PaddleHit(w, l, r) = "none" THEN 0 ELSE ImpactOffset(c.rect, p),
         goal |-> GoalHit(c),
         speed |-> c.speed,
         rect |-> c.rect,
         left_y |-> l.rect.y,
         right_y |-> r.rect.y]

NoTrace == [wall |-> "none", paddle |-> "none", offset |-> 0, goal |-> "none",
            speed |-> BALL_SPEED_INITIAL,
            rect |-> Rect(WIDTH \div 2 - BALL_SIZE \div 2, HEIGHT \div 2 - BALL_SIZE \div 2,
                          BALL_SIZE, BALL_SIZE),
            left_y |-> HEIGHT \div 2 - PADDLE_HEIGHT \div 2,
            right_y |-> HEIGHT \div 2 - PADDLE_HEIGHT \div 2]

\* ------------------------------------------------------------ AIPaddleController
\* AIPaddleController.__init__
AIInit == [last_update_time |-> 0, target_center_y |-> (HEIGHT \div 2) * MILLI]

\* the reaction delay measured from the start of the game, not from the
\* last update
ShouldUpdate_FromStart(a, t) == t >= UPDATE_INTERVAL_MS

\* should_update
ShouldUpdate(a, t) == t - a.last_update_time >= UPDATE_INTERVAL_MS

\* the target the update sets when it is due; noise is what random.gauss gives
NewTarget(a, b, noise) ==
    IF b.vx > 0
    THEN CenterY(b.rect) * MILLI + noise
    ELSE TruncDiv((100 - CENTER_BIAS_PCT) * a.target_center_y
                  + CENTER_BIAS_PCT * ((HEIGHT * MILLI) \div 2 + noise), 100)

\* "if should_update:"
Retarget(a, b, t, noise) ==
    IF ShouldUpdate(a, t)
    THEN [last_update_time |-> t, target_center_y |-> NewTarget(a, b, noise)]
    ELSE a

\* the pursuit without "if abs(dy) > self.paddle.speed"
Pursuit_Uncapped(a, p) == a.target_center_y - CenterY(p.rect) * MILLI

\* "Move towards target with limited speed": the dy given to paddle.move
Pursuit(a, p) ==
    LET dy == a.target_center_y - CenterY(p.rect) * MILLI
    IN  IF Abs(dy) > p.speed * MILLI
        THEN (IF dy > 0 THEN AI_PADDLE_SPEED * MILLI ELSE -AI_PADDLE_SPEED * MILLI)
        ELSE dy

\* ------------------------------------------------------------ state
VARIABLES
    left,        \* left_paddle: [rect, speed]
    right,       \* right_paddle
    ball,        \* ball: [rect, vx, vy, speed]
    ret,         \* what the last Ball.update returned
    op,          \* the last operation: "init", "move", "update", "ai", and
                 \* in the game loop "tick", "events", "idle", "render", "quit"
    arg,         \* the dy of the last Paddle.move
    hit,         \* what the last Ball.update did (UpdateTrace)
    last_bounce, \* the paddle of the last bounce since the last serve
    frames,      \* the frames played since the last serve
    ai,          \* ai: [last_update_time, target_center_y]
    now,         \* pygame.time.get_ticks() at the last reading of the clock
    recomputed,  \* whether the last ai.update() took "if should_update:"
    score_left,  \* main: score_left
    score_right, \* main: score_right
    running,     \* main: running
    pc           \* main: where the game loop is

vars == <<left, right, ball, ret, op, arg, hit, last_bounce, frames, ai, now, recomputed,
          score_left, score_right, running, pc>>

\* main's own variables, which no method of Paddle, Ball or the controller sees
mainVars == <<score_left, score_right, running, pc>>

MakePaddle(x, y, speed) == [rect |-> Rect(x, y, PADDLE_WIDTH, PADDLE_HEIGHT), speed |-> speed]

ServeAngles == {TruncDiv(k * SERVE_ANGLE, ServeSteps) : k \in -ServeSteps..ServeSteps}

\* main() up to the game loop
Init ==
    /\ left = MakePaddle(LEFT_PADDLE_X, HEIGHT \div 2 - PADDLE_HEIGHT \div 2, PADDLE_SPEED)
    /\ right = MakePaddle(WIDTH - LEFT_PADDLE_X - PADDLE_WIDTH,
                          HEIGHT \div 2 - PADDLE_HEIGHT \div 2, AI_PADDLE_SPEED)
    /\ \E angle \in ServeAngles, direction \in {-1, 1} : ball = BallInit(angle, direction)
    /\ ret = <<0, 0>>
    /\ op = "init"
    /\ arg = 0
    /\ hit = NoTrace
    /\ frames = 0
    /\ ai = AIInit
    /\ now = 0
    /\ recomputed = FALSE
    /\ last_bounce = "none"
    /\ score_left = 0
    /\ score_right = 0
    /\ running = TRUE
    /\ pc = "tick"

\* ------------------------------------------------------------ Paddle alone
Deltas == {k * DeltaUnit : k \in -DeltaSteps..DeltaSteps} \cup {-BigDelta, BigDelta}

\* left_paddle.move(dy) for any dy
MoveCall(dy) ==
    /\ left' = PaddleMove(left, dy)
    /\ op' = "move"
    /\ arg' = dy
    /\ UNCHANGED <<right, ball, ret, hit, last_bounce, frames, ai, now, recomputed, mainVars>>

NextPaddle == \E dy \in Deltas : MoveCall(dy)

SpecPaddle == Init /\ [][NextPaddle]_vars

\* ------------------------------------------------------------ Ball alone
\* A paddle is always inside the field (Paddle.clamp_to_screen)
ClampY(y) == Max(0, Min(HEIGHT - PADDLE_HEIGHT, y))

PaddleAt(p, y) == [p EXCEPT !.rect.y = y]

\* whether the rectangle shares a column with one of the paddles
NearPaddle(r) ==
    \/ r.x < RRight(left.rect) /\ RLeft(left.rect) < r.x + r.w
    \/ r.x < RRight(right.rect) /\ RLeft(right.rect) < r.x + r.w

\* a paddle height that leaves the paddle clear of the rectangle
AwayY(r) == IF Top(r) >= PADDLE_HEIGHT THEN 0 ELSE HEIGHT - PADDLE_HEIGHT

\* The heights Ball.update finds a paddle at: those that put the paddle's
\* centre d pixels above the centre of the ball it tests for d in ds, and one
\* that misses.  While the ball shares no column with a paddle the height
\* decides nothing and one height stands for all.  One height serves for both
\* paddles: they are 700 pixels apart and the ball is 12 wide, so at most one
\* of them meets the ball.
Heights(b, ds) ==
    LET w == WallBounce(Advance(b)).rect
    IN  IF NearPaddle(w)
        THEN {ClampY(CenterY(w) - PADDLE_HEIGHT \div 2 - d) : d \in ds} \cup {AwayY(w)}
        ELSE {left.rect.y}

\* what ball.update(l, r) does to the ball and what it returns
UpdateEffect(l, r) ==
    LET t == UpdateTrace(ball, l, r)
    IN  /\ \E angle \in (IF t.goal = "none" THEN {0} ELSE ServeAngles) :
              ball' = BallUpdate(ball, l, r, angle)
        /\ ret' = ScoreDelta(t.goal)
        /\ hit' = t
        /\ last_bounce' = (IF t.goal # "none" THEN "none"
                           ELSE IF t.paddle # "none" THEN t.paddle
                           ELSE last_bounce)
        /\ op' = "update"

\* ball.update(left, right) with both paddles at height y
UpdateCall(y) ==
    /\ UpdateEffect(PaddleAt(left, y), PaddleAt(right, y))
    /\ UNCHANGED <<left, right, arg, ai, now, recomputed, mainVars>>

\* Every impact offset, for the first MaxRallyFrames frames after a serve.
AllOffsets == -(PADDLE_HEIGHT \div 2 + BALL_SIZE \div 2)..(PADDLE_HEIGHT \div 2 + BALL_SIZE \div 2)

NextBall ==
    /\ frames < MaxRallyFrames
    /\ \E y \in Heights(ball, AllOffsets) : UpdateCall(y)
    /\ frames' = IF hit'.goal = "none" THEN frames + 1 ELSE 0

SpecBall == Init /\ [][NextBall]_vars

\* Rallies of any length, the paddle centred on the ball (as far as the field
\* lets it) or clear of it.
RallyOffsets == {0}

NextRally ==
    /\ \E y \in Heights(ball, RallyOffsets) : UpdateCall(y)
    /\ UNCHANGED frames

SpecRally == Init /\ [][NextRally]_vars

\* ------------------------------------------------------------ the score alone
\* "score_left += l": the counter with the assignment in place of the addition
AddScore_Assign(score, delta) == delta

\* "score_left += l", "score_right += r"
AddScore(score, delta) == score + delta

\* main's use of what ball.update returned
ScoreEffect ==
    /\ score_left' = AddScore(score_left, ret'[1])
    /\ score_right' = AddScore(score_right, ret'[2])

\* "l, r = ball.update(left_paddle, right_paddle); score_left += l;
\* score_right += r" with both paddles at height y
ScoreFrame(y) ==
    /\ UpdateEffect(PaddleAt(left, y), PaddleAt(right, y))
    /\ ScoreEffect
    /\ UNCHANGED <<left, right, arg, ai, now, recomputed, running, pc>>

NextScore ==
    /\ frames < MaxScoreFrames
    /\ score_left + score_right < MaxScore
    /\ \E y \in Heights(ball, RallyOffsets) : ScoreFrame(y)
    /\ frames' = IF hit'.goal = "none" THEN frames + 1 ELSE 0

SpecScore == Init /\ [][NextScore]_vars

\* ------------------------------------------------------------ the controller alone
\* the time between two readings of the clock: none, a frame at FPS, a
\* slow frame, just under the reaction delay, the reaction delay
Dts == {0, MILLI \div FPS, MILLI \div FPS + 1, UPDATE_INTERVAL_MS - 1, UPDATE_INTERVAL_MS}

Noises == {k * NoiseUnit : k \in -NoiseSteps..NoiseSteps}

\* what ai.update() does when pygame.time.get_ticks() gives t
AIEffect(t, noise) ==
    /\ ai' = Retarget(ai, ball, t, noise)
    /\ recomputed' = ShouldUpdate(ai, t)
    /\ right' = PaddleMove(right, Pursuit(ai', right))
    /\ op' = "ai"

\* ai.update(), dt ms after the clock was last read
AICall(dt, noise) ==
    /\ now + dt <= MaxTime
    /\ now' = now + dt
    /\ AIEffect(now', noise)
    /\ UNCHANGED <<left, ball, ret, arg, hit, last_bounce, frames, mainVars>>

NextAI == \E dt \in Dts, noise \in Noises : AICall(dt, noise)

SpecAI == Init /\ [][NextAI]_vars

\* ------------------------------------------------------------ main: the game loop
\* clock.tick(FPS): the milliseconds of one frame at FPS
FrameTimes == {MILLI \div FPS + 1}

\* random.gauss(0, 12) in the game loop
GameNoises == {0}

\* "dy = 0; if keys[K_w]: dy -= PADDLE_SPEED; if keys[K_s]: dy += PADDLE_SPEED"
KeyDy(w, s) == (IF w THEN -PADDLE_SPEED ELSE 0) + (IF s THEN PADDLE_SPEED ELSE 0)

\* the loop body if "running = False" left the loop at once
AfterEvents_Exit(run) == IF run THEN "input" ELSE "done"

\* where the loop body goes after the event loop: "running = False" ends
\* nothing by itself
AfterEvents(run) == "input"

\* "while running:" taken, "dt = clock.tick(FPS)"
Tick(dt) ==
    /\ pc = "tick"
    /\ running
    /\ now + dt <= MaxGameTime
    /\ now' = now + dt
    /\ pc' = "events"
    /\ op' = "tick"
    /\ UNCHANGED <<left, right, ball, ret, arg, hit, last_bounce, frames, ai, recomputed,
                   score_left, score_right, running>>

\* "for event in pygame.event.get()": quit says whether a QUIT or an
\* Escape KEYDOWN is among the events
Events(quit) ==
    /\ pc = "events"
    /\ running' = (running /\ ~quit)
    /\ pc' = AfterEvents(running')
    /\ op' = "events"
    /\ UNCHANGED <<left, right, ball, ret, arg, hit, last_bounce, frames, ai, now, recomputed,
                   score_left, score_right>>

\* "Input (human on left paddle)"
Input(w, s) ==
    /\ pc = "input"
    /\ IF KeyDy(w, s) # 0
       THEN /\ left' = PaddleMove(left, KeyDy(w, s) * MILLI)
            /\ op' = "move"
            /\ arg' = KeyDy(w, s) * MILLI
       ELSE /\ op' = "idle"
            /\ UNCHANGED <<left, arg>>
    /\ pc' = "ball"
    /\ UNCHANGED <<right, ball, ret, hit, last_bounce, frames, ai, now, recomputed,
                   score_left, score_right, running>>

\* "l, r = ball.update(left_paddle, right_paddle); score_left += l;
\* score_right += r"
Physics ==
    /\ pc = "ball"
    /\ UpdateEffect(left, right)
    /\ left' = UpdatePaddles(ball, left, right).left
    /\ right' = UpdatePaddles(ball, left, right).right
    /\ ScoreEffect
    /\ frames' = IF hit'.goal = "none" THEN frames + 1 ELSE 0
    /\ pc' = "ai"
    /\ UNCHANGED <<arg, ai, now, recomputed, running>>

\* "ai.update()"
AIStep(noise) ==
    /\ pc = "ai"
    /\ AIEffect(now, noise)
    /\ pc' = "render"
    /\ UNCHANGED <<left, ball, ret, arg, hit, last_bounce, frames, now,
                   score_left, score_right, running>>

\* "Render" ... "pygame.display.flip()": draws, changes nothing
Render ==
    /\ pc = "render"
    /\ pc' = "tick"
    /\ op' = "render"
    /\ UNCHANGED <<left, right, ball, ret, arg, hit, last_bounce, frames, ai, now, recomputed,
                   score_left, score_right, running>>

\* "while running:" not taken, "pygame.quit(); sys.exit(0)"
Quit ==
    /\ pc = "tick"
    /\ ~running
    /\ pc' = "done"
    /\ op' = "quit"
    /\ UNCHANGED <<left, right, ball, ret, arg, hit, last_bounce, frames, ai, now, recomputed,
                   score_left, score_right, running>>

Next ==
    \/ \E dt \in FrameTimes : Tick(dt)
    \/ \E quit \in BOOLEAN : Events(quit)
    \/ \E w \in BOOLEAN, s \in BOOLEAN : Input(w, s)
    \/ Physics
    \/ \E noise \in GameNoises : AIStep(noise)
    \/ Render
    \/ Quit

Spec == Init /\ [][Next]_vars

\* ------------------------------------------------------------ claims
InField(p) == Top(p.rect) >= 0 /\ Bottom(p.rect) <= HEIGHT

\* C1: after any sequence of Paddle.move calls, with positive, negative,
\* zero, fractional and huge dy, the paddle's rectangle has top >= 0 and
\* bottom <= HEIGHT.
C1_PaddleInField == InField(left) /\ InField(right)

\* a move down that the clamp stopped at the bottom edge
C1_Witness == op = "move" /\ arg = BigDelta /\ Bottom(left.rect) = HEIGHT

\* C2: whatever the bounces, reflections and resets so far,
\* BALL_SPEED_INITIAL <= ball.speed <= BALL_SPEED_MAX.
C2_SpeedBound == BALL_SPEED_INITIAL <= ball.speed /\ ball.speed <= BALL_SPEED_MAX

\* a bounce that leaves the ball at the maximum speed
C2_Witness == op = "update" /\ hit.paddle # "none" /\ ball.speed = BALL_SPEED_MAX

\* C3: Ball.update returns (score_left, score_right) with each component 0
\* or 1 and never both 1.
C3_ScoreExclusive == ret \in {<<0, 0>>, <<1, 0>>, <<0, 1>>}

\* an update that returned a point for the left player
C3_Witness == op = "update" /\ ret = <<1, 0>>

\* C4 as claimed: a ball past the left edge scores for the right player and
\* is served rightward (vx > 0); a ball past the right edge scores for the left
\* player and is served leftward (vx < 0).
C4_ServeAwayFromLoser ==
    /\ hit.goal = "left" => ret = <<0, 1>> /\ ball.vx > 0
    /\ hit.goal = "right" => ret = <<1, 0>> /\ ball.vx < 0

\* C4 (amended): a ball past the left edge (right < 0) scores 1 for the right
\* player and is served leftward (vx < 0), toward the player who lost the
\* point; a ball past the right edge (left > WIDTH) scores 1 for the left
\* player and is served rightward (vx > 0).
C4_ServeTowardLoser ==
    /\ hit.goal = "left" => ret = <<0, 1>> /\ ball.vx < 0
    /\ hit.goal = "right" => ret = <<1, 0>> /\ ball.vx > 0

\* a goal at the left edge, the ball served leftward from the centre
C4_Witness == op = "update" /\ hit.goal = "left" /\ ret = <<0, 1>> /\ ball.vx < 0

\* C5 as claimed: of two consecutive ai.update() calls less than
\* UPDATE_INTERVAL_MS apart, the second leaves target_center_y as it was.
C5_ConsecutiveCalls ==
    [][(op = "ai" /\ op' = "ai" /\ now' - now < UPDATE_INTERVAL_MS)
        => ai'.target_center_y = ai.target_center_y]_vars

\* C5 (amended): of two consecutive ai.update() calls less than
\* UPDATE_INTERVAL_MS apart, the first of which set the target, the second
\* leaves target_center_y as it was.
C5_AfterRecompute ==
    [][(op = "ai" /\ recomputed /\ op' = "ai" /\ now' - now < UPDATE_INTERVAL_MS)
        => ai'.target_center_y = ai.target_center_y]_vars

\* a call that kept a target an earlier call had set, the paddle having moved
C5_Witness ==
    /\ op = "ai" /\ ~recomputed
    /\ ai.last_update_time > 0 /\ now - ai.last_update_time < UPDATE_INTERVAL_MS
    /\ ai.target_center_y # AIInit.target_center_y
    /\ right.rect.y # HEIGHT \div 2 - PADDLE_HEIGHT \div 2

\* C6: under a clock that never runs backwards, a call that sets the target
\* comes at least UPDATE_INTERVAL_MS after the last one that did (or after the
\* construction), and a call that does not leaves target_center_y and
\* last_update_time as they were and moves the paddle toward the old target:
\* never away from it, and by at least a pixel when the target is a pixel or
\* more away and the field's edge is not in the way.
C6_RecomputeRate ==
    [][op' = "ai" =>
         IF recomputed'
         THEN /\ ai'.last_update_time = now'
              /\ ai'.last_update_time - ai.last_update_time >= UPDATE_INTERVAL_MS
         ELSE /\ ai'.target_center_y = ai.target_center_y
              /\ ai'.last_update_time = ai.last_update_time
              /\ LET dy == ai.target_center_y - CenterY(right.rect) * MILLI
                     m == right'.rect.y - right.rect.y
                 IN  /\ m * Sign(dy) >= 0
                     /\ Abs(dy) >= MILLI =>
                          \/ m # 0
                          \/ Top(right'.rect) = 0
                          \/ Bottom(right'.rect) = HEIGHT]_vars

\* the second time the target is set
C6_Witness ==
    op = "ai" /\ recomputed /\ ai.last_update_time >= 2 * UPDATE_INTERVAL_MS

\* C7: after an update in which a goal was scored, and so after every
\* Ball.reset, the ball's centre is (WIDTH // 2, HEIGHT // 2) and its speed is
\* BALL_SPEED_INITIAL, whatever they were before.
C7_ResetState ==
    hit.goal # "none" =>
        /\ CenterX(ball.rect) = WIDTH \div 2
        /\ CenterY(ball.rect) = HEIGHT \div 2
        /\ ball.speed = BALL_SPEED_INITIAL

\* a goal that ended a rally in which the ball had been sped up
C7_Witness ==
    op = "update" /\ hit.goal # "none" /\ hit.speed > BALL_SPEED_INITIAL
    /\ ball.speed = BALL_SPEED_INITIAL

\* C8: a bounce off the left paddle leaves vx > 0 and one off the right paddle
\* vx < 0, at every impact offset; at offset 0 the bounce leaves vy = 0.
C8_Reflection ==
    /\ hit.paddle = "left" => ball.vx > 0
    /\ hit.paddle = "right" => ball.vx < 0
    /\ (hit.paddle # "none" /\ hit.offset = 0) => ball.vy = 0

\* a bounce off the left paddle at the extreme offset, where cos(angle) is least
C8_Witness == op = "update" /\ hit.paddle = "left" /\ hit.offset = MILLI /\ ball.vx > 0

\* the move's result if dy were added as a real number
RealClamp(y, dy, h) == Max(0, Min((HEIGHT - h) * MILLI, y * MILLI + dy))

\* C9 as claimed: move(dy) leaves top at top + dy clamped into
\* [0, HEIGHT - height], for fractional dy too.
C9_AddsDelta ==
    [][op' = "move" =>
         left'.rect.y * MILLI = RealClamp(left.rect.y, arg', left.rect.h)]_vars

\* C9 (amended): move(dy) leaves top at top + int(dy), dy truncated toward
\* zero, clamped into [0, HEIGHT - height]; move(0) leaves the paddle as it
\* was and move(-10000) leaves top at 0.
C9_AddsTruncatedDelta ==
    [][op' = "move" =>
         /\ left'.rect.y =
                Max(0, Min(HEIGHT - left.rect.h, left.rect.y + IntTrunc(arg')))
         /\ arg' = 0 => left' = left
         /\ arg' = -BigDelta => Top(left'.rect) = 0]_vars

\* the first move, by a fractional dy, which moved the paddle 3 pixels
C9_Witness ==
    /\ op = "move" /\ arg % MILLI # 0 /\ arg > 0
    /\ left.rect.y = HEIGHT \div 2 - PADDLE_HEIGHT \div 2 + IntTrunc(arg)

C11_ScoreAccounting ==
    /\ score_left = 0 /\ score_right = 0
    /\ [][IF op' = "update"
          THEN /\ score_right' = score_right + (IF RRight(hit'.rect) < 0 THEN 1 ELSE 0)
               /\ score_left' = score_left + (IF RLeft(hit'.rect) > WIDTH THEN 1 ELSE 0)
               /\ score_left' >= score_left /\ score_right' >= score_right
               /\ score_left' + score_right' <= score_left + score_right + 1
          ELSE UNCHANGED <<score_left, score_right>>]_vars

\* a goal at the right edge after a goal at the left edge
C11_Witness ==
    /\ score_left = 1 /\ score_right = 1
    /\ hit.goal = "right" /\ RLeft(hit.rect) > WIDTH

\* C12: the ball's speed changes only in a paddle bounce or a reset: a frame
\* with a goal leaves it at BALL_SPEED_INITIAL, a frame with a bounce at
\* min(BALL_SPEED_MAX, speed + BALL_SPEED_INCREMENT), any other frame, wall
\* reflections included, leaves it unchanged; so within a rally the speed
\* never decreases, and nothing but Ball.update changes it.
C12_SpeedMonotone ==
    [][IF op' = "update"
       THEN /\ hit'.goal # "none" => ball'.speed = BALL_SPEED_INITIAL
            /\ hit'.goal = "none" /\ hit'.paddle # "none" =>
                   ball'.speed = Min(BALL_SPEED_MAX, ball.speed + BALL_SPEED_INCREMENT)
            /\ hit'.goal = "none" /\ hit'.paddle = "none" => ball'.speed = ball.speed
            /\ hit'.goal = "none" => ball'.speed >= ball.speed
            /\ ball'.speed < ball.speed => hit'.goal # "none" /\ ball'.speed = BALL_SPEED_INITIAL
       ELSE ball'.speed = ball.speed]_vars

\* a wall reflection in the middle of a rally, at a raised speed below the cap
C12_Witness ==
    /\ op = "update" /\ hit.wall # "none" /\ hit.paddle = "none" /\ hit.goal = "none"
    /\ ball.speed > BALL_SPEED_INITIAL + BALL_SPEED_INCREMENT
    /\ ball.speed < BALL_SPEED_MAX

\* the two rectangles share a point of their interiors
Overlaps(a, b) ==
    /\ RLeft(a) < RRight(b) /\ RLeft(b) < RRight(a)
    /\ Top(a) < Bottom(b) /\ Top(b) < Bottom(a)

\* the ball's rect at the paddle tests of the Ball.update now starting
AtPaddleTest == WallBounce(Advance(ball)).rect

\* C13: Ball.update bounces the ball off the left paddle only if the ball
\* overlaps that paddle and vx < 0, off the right paddle only if it overlaps
\* that one and vx > 0; the paddle of a bounce is never the paddle of the
\* frame before, nor the paddle of the last bounce since the last serve (so
\* between two bounces off one paddle there is a bounce off the other or a
\* goal reset).
C13_BouncePrecondition ==
    [][op' = "update" =>
        /\ hit'.paddle = "left" =>
               /\ ball.vx < 0
               /\ Overlaps(AtPaddleTest, PaddleAt(left, hit'.left_y).rect)
        /\ hit'.paddle = "right" =>
               /\ ball.vx > 0
               /\ Overlaps(AtPaddleTest, PaddleAt(right, hit'.right_y).rect)
        /\ hit'.paddle # "none" =>
               /\ hit'.paddle # hit.paddle
               /\ hit'.paddle # last_bounce]_vars

\* the second bounce off the left paddle in one rally
C13_Witness ==
    /\ op = "update" /\ hit.paddle = "left" /\ last_bounce = "left"
    /\ ball.speed = BALL_SPEED_INITIAL + 3 * BALL_SPEED_INCREMENT

\* C14: every Ball.update leaves the ball with top >= 0 and bottom <= HEIGHT,
\* and a wall inverts vy at most once in it: in a frame without a paddle
\* bounce and without a goal, vy is the negation of the old vy if a wall
\* branch was taken and the old vy if none was.
C14_WallContainment ==
    [][op' = "update" =>
        /\ Top(ball'.rect) >= 0 /\ Bottom(ball'.rect) <= HEIGHT
        /\ Top(hit'.rect) >= 0 /\ Bottom(hit'.rect) <= HEIGHT
        /\ hit'.paddle = "none" /\ hit'.goal = "none" =>
               ball'.vy = (IF hit'.wall = "none" THEN ball.vy ELSE -ball.vy)]_vars

\* a ball that reached the bottom wall and was turned upward on it
C14_Witness ==
    /\ op = "update" /\ hit.wall = "bottom" /\ hit.paddle = "none"
    /\ Bottom(ball.rect) = HEIGHT /\ ball.vy < 0

\* the distance, in 1/MILLI pixels, from the centre of paddle p to the target
\* of controller a
TargetGap(a, p) == a.target_center_y - CenterY(p.rect) * MILLI

\* C15: in every ai.update() the AI paddle moves by at most AI_PADDLE_SPEED
\* pixels, and never away from the target the update pursues: it moves in the
\* direction of the target or not at all, and ends no farther from it.
C15_AISpeedCap ==
    [][op' = "ai" =>
        /\ Abs(right'.rect.y - right.rect.y) <= AI_PADDLE_SPEED
        /\ (right'.rect.y - right.rect.y) * Sign(TargetGap(ai', right)) >= 0
        /\ Abs(TargetGap(ai', right')) <= Abs(TargetGap(ai', right))
        /\ right'.rect.x = right.rect.x]_vars

\* an update that moved the paddle a full step and left the target more than
\* a step away
C15_Witness ==
    /\ op = "ai"
    /\ right.rect.y = HEIGHT \div 2 - PADDLE_HEIGHT \div 2 + AI_PADDLE_SPEED
    /\ TargetGap(ai, right) > AI_PADDLE_SPEED * MILLI

\* C16: Ball.update changes neither paddle's rect; ai.update() changes
\* neither the ball's position, velocity and speed, nor the left paddle, nor
\* the scores; Paddle.move, called for the left paddle by the input step and
\* for the right one by ai.update(), changes that paddle's y only, leaving its
\* x, width, height and speed, and the other paddle, as they were.
C16_FrameEffects ==
    [][/\ op' = "update" => left' = left /\ right' = right
       /\ op' = "ai" =>
              /\ ball' = ball /\ left' = left
              /\ score_left' = score_left /\ score_right' = score_right
              /\ right' = [right EXCEPT !.rect.y = right'.rect.y]
       /\ op' = "move" =>
              /\ left' = [left EXCEPT !.rect.y = left'.rect.y]
              /\ right' = right]_vars

\* a bounce off a right paddle that the controller has moved, while the
\* player has moved the left one
C16_Witness ==
    /\ op = "update" /\ hit.paddle = "right"
    /\ right.rect.y # HEIGHT \div 2 - PADDLE_HEIGHT \div 2
    /\ left.rect.y # HEIGHT \div 2 - PADDLE_HEIGHT \div 2

\* C17: in every frame of the game loop the input step (the human paddle's
\* move) comes first, then the ball's update with the scores, then
\* ai.update(), then the rendering; nothing else changes the left paddle, the
\* ball and the scores, or the right paddle and the controller; ai.update()
\* finds the ball as this frame's Ball.update left it; and once a frame has
\* seen a quit event the loop ends only at its next "while running" test,
\* after that frame's input, update, AI and render steps.
C17_UpdateOrder ==
    [][/\ pc = "tick" => pc' \in {"events", "done"}
       /\ pc = "events" => pc' = "input"
       /\ pc = "input" => pc' = "ball" /\ op' \in {"move", "idle"}
       /\ pc = "ball" => pc' = "ai" /\ op' = "update"
       /\ pc = "ai" => pc' = "render" /\ op' = "ai" /\ op = "update"
       /\ pc = "render" => pc' = "tick" /\ op = "ai"
       /\ left' # left => pc = "input"
       /\ (ball' # ball \/ score_left' # score_left \/ score_right' # score_right) => pc = "ball"
       /\ (right' # right \/ ai' # ai) => pc = "ai"
       /\ pc = "ai" /\ hit.goal = "none" => ball.rect = hit.rect
       /\ pc = "ai" /\ recomputed' /\ ball.vx > 0 =>
              \E noise \in GameNoises :
                  ai'.target_center_y = CenterY(ball.rect) * MILLI + noise
       /\ running' # running => pc = "events" /\ running /\ pc' = "input"
       /\ pc' = "done" => pc = "tick" /\ ~running /\ op = "render"]_vars

\* the loop has ended after a frame that saw a quit event and in which the
\* player moved the paddle and the ball bounced off it
C17_Witness ==
    /\ pc = "done" /\ ~running /\ op = "quit"
    /\ hit.paddle = "left" /\ arg # 0

\* C18: in every state of play the truncated horizontal step int(vx) is not
\* zero, so that each frame moves the ball at least one pixel along vx; in
\* particular after the first bounce of a rally at an impact offset of 1 or
\* -1 (angle 0.45 * pi, speed 6.35).
C18_HorizontalProgress == IntTrunc(ball.vx) # 0

\* the paddles Ball.update was given in the step now taken
LeftGiven == PaddleAt(left, hit'.left_y).rect
RightGiven == PaddleAt(right, hit'.right_y).rect

\* the ball's rect r and the paddle's rect p share a row
SameRows(r, p) == Top(r) < Bottom(p) /\ Top(p) < Bottom(r)

\* C19: the horizontal step of a frame is at most BALL_SPEED_MAX pixels, so a
\* ball that starts a frame entirely in front of the facing edge of the
\* paddle it moves toward is not entirely behind that paddle's back edge at
\* the paddle tests; if it has crossed the facing edge there and the paddle
\* shares a row with it, it is bounced and no goal is scored; a goal is
\* scored against a paddle only on a ball that started the frame behind that
\* paddle's facing edge; and right after a bounce the ball is flush with the
\* paddle's facing edge and does not overlap the paddle.
C19_NoTunneling ==
    [][op' = "update" =>
        /\ Abs(IntTrunc(ball.vx)) <= BALL_SPEED_MAX \div MILLI
        /\ ball.vx < 0 /\ RLeft(ball.rect) >= RRight(LeftGiven) =>
               /\ RRight(AtPaddleTest) > RLeft(LeftGiven)
               /\ hit'.goal # "left"
               /\ RLeft(AtPaddleTest) < RRight(LeftGiven) /\ SameRows(AtPaddleTest, LeftGiven)
                      => hit'.paddle = "left" /\ hit'.goal = "none"
        /\ ball.vx > 0 /\ RRight(ball.rect) <= RLeft(RightGiven) =>
               /\ RLeft(AtPaddleTest) < RRight(RightGiven)
               /\ hit'.goal # "right"
               /\ RRight(AtPaddleTest) > RLeft(RightGiven) /\ SameRows(AtPaddleTest, RightGiven)
                      => hit'.paddle = "right" /\ hit'.goal = "none"
        /\ hit'.paddle = "left" =>
               /\ RLeft(ball'.rect) = RRight(LeftGiven)
               /\ ~Overlaps(ball'.rect, LeftGiven)
        /\ hit'.paddle = "right" =>
               /\ RRight(ball'.rect) = RLeft(RightGiven)
               /\ ~Overlaps(ball'.rect, RightGiven)]_vars

\* a bounce off the left paddle that leaves the ball flush with it and at a
\* step of BALL_SPEED_MAX pixels a frame
C19_Witness ==
    /\ op = "update" /\ hit.paddle = "left"
    /\ RLeft(ball.rect) = RRight(left.rect)
    /\ IntTrunc(ball.vx) = BALL_SPEED_MAX \div MILLI

\* C20: in a frame without a goal reset the ball's x at the end of
\* Ball.update is within BALL_SPEED_MAX pixels of its x at the start of that
\* update: a ball whose leading edge is behind a paddle's facing edge is not
\* put back in front of the paddle.
C20_NoRescue ==
    [][op' = "update" /\ hit'.goal = "none" =>
        Abs(ball'.rect.x - ball.rect.x) <= BALL_SPEED_MAX \div MILLI]_vars

=============================================================================
